---------------------------- MODULE Spec2Model ----------------------------
(***************************************************************************)
(* PER-VISOR-V2: content identity (question fingerprint), the exam         *)
(* session of ExamSystem (start, answer, pause, finish, countdown), the    *)
(* scoring rule and the explanation cache of ExamViewer.                   *)
(*                                                                         *)
(* The module holds several specifications over one set of variables:      *)
(*   SpecHash   the fingerprint of one question under harmless rewrites    *)
(*   SpecPass   checkIfPassed applied to drawn inputs                      *)
(*   SpecScore  calculateAndShowResults applied to a drawn exam            *)
(*   SpecExam   the ExamSystem session, its timer and the exam server      *)
(*   SpecStart  SpecExam without the handlers that end an exam             *)
(*   SpecAnswer SpecStart with saveAnswer called with any letter           *)
(*   SpecExpl   the explanation cache and the external generator           *)
(*   SpecAssemble  the start of an exam with the exam assembler            *)
(*   SpecEdit   saveQuestionChanges on a drawn question bank               *)
(*   SpecList   the question list: filters, deduplication, pages           *)
(* A specification keeps the variables of the other parts constant.        *)
(***************************************************************************)
EXTENDS Integers, Sequences, FiniteSets, Bags, TLC

VARIABLES
    \* ---- content identity (ExamViewer.calculateQuestionHashSync) ----
    pregunta,        \* the question whose fingerprint is taken
    hashOriginal,    \* the fingerprint the question had when it was drawn
    \* ---- the pass rule (ExamSystem.checkIfPassed) ----
    percentage,      \* argument: the overall percentage, a fraction num/den
    utResults,       \* argument: per topic [correct, total, errors]
    passed,          \* <<the value returned>>, Null before the call
    \* ---- ExamSystem ----
    currentExam,     \* this.currentExam: Null or <<[exam_id, questions, questionDetails]>>
    userAnswers,     \* this.userAnswers: question id -> letter or NoAnswer
    section,         \* the page section shown: auth, dashboard, exam, results
    displayed,       \* <<the results handed to displayResults>>, Null before
    authToken,       \* this.authToken: TRUE when a token is held
    examTimer,       \* this.examTimer: an interval id, NoTimer for null
    timeRemaining,   \* this.timeRemaining, in seconds
    answerLog,       \* the last "Answer saved:" of the console: <<id, answer>>
    \* ---- the browser and the exam server of ExamSystem ----
    intervals,       \* the ids of the intervals setInterval has running
    calls,           \* the bag of fetch calls under way, each awaited by a handler
    serverExams,     \* the exams of the user on the server: [status, answers]
    \* ---- the exam assembler of the server ----
    pool,            \* the question pool: [question_id, ut_number, fingerprint]
    exam_questions,  \* table exam_questions: for each exam of serverExams its rows
    \* ---- the explanations of ExamViewer ----
    explicaciones,   \* this.explicaciones: fingerprint -> explanation
    explButton,      \* per fingerprint, the state of its .btn-explanation button
    explCalls,       \* the generateExplanation calls under way
    generatorCalls,  \* per fingerprint, the requests the generator has received
    \* ---- the question bank and the list of ExamViewer ----
    data,            \* this.data.examenes: the exams [titulacion, preguntas]
    filters,         \* this.filters: [titulacion, tema, duplicados, search]
    filteredQuestions, \* this.filteredQuestions
    currentPage,     \* this.currentPage
    questionsToShow, \* the question cards in #questionsContainer
    pageButtons      \* the pages the buttons of #pagination lead to

hashVars == <<pregunta, hashOriginal>>
passVars == <<percentage, utResults, passed>>
examVars == <<currentExam, userAnswers, section, displayed>>
sessionVars == <<authToken, examTimer, timeRemaining, intervals, calls, serverExams>>
explVars == <<explicaciones, explButton, explCalls, generatorCalls>>
asmVars == <<pool, exam_questions>>
consoleVars == <<answerLog>>
bankVars == <<data>>
listVars == <<filters, filteredQuestions, currentPage, questionsToShow, pageButtons>>
viewerVars == <<bankVars, listVars>>
vars == <<hashVars, passVars, examVars, sessionVars, explVars, asmVars, consoleVars, viewerVars>>

\* The variables outside one part of the module.
notHash == <<passVars, examVars, sessionVars, explVars, asmVars, consoleVars, viewerVars>>
notPass == <<hashVars, examVars, sessionVars, explVars, asmVars, consoleVars, viewerVars>>
notExam == <<hashVars, passVars, explVars, asmVars, consoleVars, viewerVars>>
notExpl == <<hashVars, passVars, examVars, sessionVars, asmVars, consoleVars, viewerVars>>

\* null or undefined in a variable that otherwise holds a value v, which is
\* kept as <<v>>.
Null == <<>>

\* null where the value is otherwise a letter.
NullLetter == "null"

-----------------------------------------------------------------------------
(***************************************************************************)
(* CONTENT IDENTITY                                                        *)
(* A text is a sequence of one-character strings.                          *)
(***************************************************************************)

\* Longest text a rewrite may produce.
MaxTextLen == 4

\* String.prototype.charCodeAt for the characters of the model.
charCodeAt(c) ==
    CASE c = "a" -> 97
      [] c = "A" -> 65
      [] c = "," -> 44
      [] c = "." -> 46
      [] c = " " -> 32
      [] c = "|" -> 124

\* String.prototype.toLowerCase, one character.
LowerChar(c) == IF c = "A" THEN "a" ELSE c

toLowerCase(texto) == [i \in 1..Len(texto) |-> LowerChar(texto[i])]

\* \w of a JavaScript regular expression: [A-Za-z0-9_].
IsWordChar(c) == c \in {"a", "A"}

\* \s of a JavaScript regular expression.
IsSpaceChar(c) == c = " "

\* .replace(/[^\w\s]/g, ' ')
ReplaceNonWord(texto) ==
    [i \in 1..Len(texto) |->
        IF IsWordChar(texto[i]) \/ IsSpaceChar(texto[i]) THEN texto[i] ELSE " "]

\* .replace(/\s+/g, ' '): a blank that follows a blank is dropped.
RECURSIVE CollapseSpaces(_)
CollapseSpaces(texto) ==
    IF Len(texto) <= 1 THEN texto
    ELSE IF IsSpaceChar(texto[1]) /\ IsSpaceChar(texto[2])
         THEN CollapseSpaces(<<" ">> \o SubSeq(texto, 3, Len(texto)))
         ELSE <<texto[1]>> \o CollapseSpaces(Tail(texto))

\* .trim()
RECURSIVE TrimLeft(_)
TrimLeft(texto) ==
    IF texto # <<>> /\ IsSpaceChar(texto[1]) THEN TrimLeft(Tail(texto)) ELSE texto

RECURSIVE TrimRight(_)
TrimRight(texto) ==
    IF texto # <<>> /\ IsSpaceChar(texto[Len(texto)])
    THEN TrimRight(SubSeq(texto, 1, Len(texto) - 1))
    ELSE texto

trim(texto) == TrimRight(TrimLeft(texto))

\* normalizarTexto of calculateQuestionHashSync without its toLowerCase.
normalizarTextoSinMinusculas(texto) ==
    IF texto = <<>> THEN <<>>
    ELSE trim(CollapseSpaces(ReplaceNonWord(texto)))

\* normalizarTexto of calculateQuestionHashSync.
normalizarTexto(texto) ==
    IF texto = <<>> THEN <<>>
    ELSE trim(CollapseSpaces(ReplaceNonWord(toLowerCase(texto))))

\* The order of Array.prototype.sort without a comparator: strings compared
\* code unit by code unit, a proper prefix first.
RECURSIVE StrLess(_, _)
StrLess(s, t) ==
    IF t = <<>> THEN FALSE
    ELSE IF s = <<>> THEN TRUE
    ELSE IF charCodeAt(s[1]) # charCodeAt(t[1])
         THEN charCodeAt(s[1]) < charCodeAt(t[1])
         ELSE StrLess(Tail(s), Tail(t))

RECURSIVE InsertSorted(_, _)
InsertSorted(s, sorted) ==
    IF sorted = <<>> THEN <<s>>
    ELSE IF StrLess(sorted[1], s)
         THEN <<sorted[1]>> \o InsertSorted(s, Tail(sorted))
         ELSE <<s>> \o sorted

\* Array.prototype.sort()
RECURSIVE sort(_)
sort(textos) ==
    IF textos = <<>> THEN <<>>
    ELSE InsertSorted(textos[1], sort(Tail(textos)))

\* Array.prototype.join('|')
RECURSIVE join(_)
join(textos) ==
    IF textos = <<>> THEN <<>>
    ELSE IF Len(textos) = 1 THEN textos[1]
    ELSE textos[1] \o <<"|">> \o join(Tail(textos))

\* .filter(texto => texto): the empty texts are dropped.
filterNoVacio(textos) == SelectSeq(textos, LAMBDA t : t # <<>>)

\* opcionesNorm of calculateQuestionHashSync with the .sort() left out.
opcionesNormSinOrdenar(opciones) ==
    join(filterNoVacio([i \in 1..Len(opciones) |-> normalizarTexto(opciones[i].texto)]))

\* opcionesNorm of calculateQuestionHashSync.
opcionesNorm(opciones) ==
    join(sort(filterNoVacio(
        [i \in 1..Len(opciones) |-> normalizarTexto(opciones[i].texto)])))

\* contenido of calculateQuestionHashSync: `${enunciadoNorm}|${opcionesNorm}`.
contenido(p) ==
    normalizarTexto(p.enunciado) \o <<"|">> \o opcionesNorm(p.opciones)

\* A 32-bit integer is kept as its two 16-bit halves <<hi, lo>> (unsigned).
Half == 65536

\* One round of the loop: hash = ((hash << 5) - hash) + char; hash = hash & hash,
\* that is 31 * hash + char reduced to 32 bits.
HashStep(h, code) ==
    LET lo == 31 * h[2] + code
        hi == 31 * h[1] + (lo \div Half)
    IN  <<hi % Half, lo % Half>>

RECURSIVE HashLoop(_, _)
HashLoop(h, texto) ==
    IF texto = <<>> THEN h
    ELSE HashLoop(HashStep(h, charCodeAt(texto[1])), Tail(texto))

\* Math.abs of the signed 32-bit value held in <<hi, lo>>.
MathAbs(h) ==
    IF h[1] < Half \div 2 THEN h
    ELSE IF h[2] = 0 THEN <<(Half - h[1]) % Half, 0>>
    ELSE <<Half - 1 - h[1], Half - h[2]>>

\* The four hexadecimal digits of a 16-bit half.
Hex4(n) == <<n \div 4096, (n \div 256) % 16, (n \div 16) % 16, n % 16>>

\* .toString(16).padStart(16, '0') of a value below 2^32: sixteen hex digits.
toHex16(h) == <<0, 0, 0, 0, 0, 0, 0, 0>> \o Hex4(h[1]) \o Hex4(h[2])

\* calculateQuestionHashSync: the stored hash when the question has one, the
\* 32-bit rolling hash of the canonical content otherwise.
calculateQuestionHashSync(p) ==
    IF p.hash_pregunta # Null THEN p.hash_pregunta
    ELSE toHex16(MathAbs(HashLoop(<<0, 0>>, contenido(p))))

\* ---- calculateQuestionHash, the asynchronous variant ----
\* What an expression of the script gives: a string (here of hex digits), a
\* Promise that resolves with one, or a TypeError thrown.
JSString(v) == [type |-> "string", value |-> v]
Promise(v) == [type |-> "Promise", value |-> v]
TypeError == [type |-> "TypeError", value |-> <<>>]

\* async sha256(str): an async function returns a Promise.  The value is
\* that of the fallback loop; with the Web Crypto API the Promise resolves
\* with the 64 hex digits of the SHA-256 instead.
sha256(str) == Promise(toHex16(MathAbs(HashLoop(<<0, 0>>, str))))

\* x.substring(0, 16): only a string has the method.
substring16(x) ==
    IF x.type = "string" THEN JSString(SubSeq(x.value, 1, 16)) ELSE TypeError

\* calculateQuestionHash(pregunta): this.sha256(contenido).substring(0, 16)
calculateQuestionHash(p) == substring16(sha256(contenido(p)))

\* A hash_pregunta as the corpus stores it (sixteen hex digits).
StoredHash == <<0, 0, 0, 0, 0, 0, 0, 0, 1, 2, 3, 4, 5, 6, 7, 8>>

\* The texts questions are drawn with: no text, one word, two letters, two
\* words with a comma between them.
SeedTexts == {<<>>, <<"a">>, <<"a", "a">>, <<"a", ",", "a">>}

\* The questions drawn: a prompt, two options, with or without a stored hash.
DrawnQuestions ==
    [enunciado : SeedTexts,
     opciones : [1..2 -> [texto : SeedTexts]],
     hash_pregunta : {Null, StoredHash}]

HashDrawn ==
    /\ pregunta \in DrawnQuestions
    /\ hashOriginal = calculateQuestionHashSync(pregunta)

\* A text with character i replaced by c.
SetChar(texto, i, c) == [texto EXCEPT ![i] = c]

\* A text with c inserted before position i (i = Len + 1 appends).
InsertChar(texto, i, c) ==
    SubSeq(texto, 1, i - 1) \o <<c>> \o SubSeq(texto, i, Len(texto))

\* A text without its character i.
RemoveChar(texto, i) ==
    SubSeq(texto, 1, i - 1) \o SubSeq(texto, i + 1, Len(texto))

IsPunct(c) == ~IsWordChar(c) /\ ~IsSpaceChar(c)

\* The rewrites of one text that leave its meaning alone: the case of a
\* letter, one punctuation mark for another, a blank more or less next to a
\* punctuation mark (a text grows to at most MaxTextLen characters).
Rewrites(texto) ==
    {SetChar(texto, i, "A") : i \in {j \in 1..Len(texto) : texto[j] = "a"}}
    \cup {SetChar(texto, i, "a") : i \in {j \in 1..Len(texto) : texto[j] = "A"}}
    \cup {SetChar(texto, i, ".") : i \in {j \in 1..Len(texto) : texto[j] = ","}}
    \cup {SetChar(texto, i, ",") : i \in {j \in 1..Len(texto) : texto[j] = "."}}
    \cup {InsertChar(texto, i, " ") :
            i \in {j \in 1..(Len(texto) + 1) :
                     /\ Len(texto) < MaxTextLen
                     /\ \/ (j <= Len(texto) /\ IsPunct(texto[j]))
                        \/ (j > 1 /\ IsPunct(texto[j - 1]))}}
    \cup {RemoveChar(texto, i) :
            i \in {j \in 1..Len(texto) :
                     /\ IsSpaceChar(texto[j])
                     /\ \/ (j < Len(texto) /\ IsPunct(texto[j + 1]))
                        \/ (j > 1 /\ IsPunct(texto[j - 1]))}}

\* The prompt is rewritten.
RewriteEnunciado ==
    /\ \E t \in Rewrites(pregunta.enunciado) :
          pregunta' = [pregunta EXCEPT !.enunciado = t]
    /\ UNCHANGED <<hashOriginal, notHash>>

\* One option text is rewritten.
RewriteOpcion ==
    /\ \E i \in 1..Len(pregunta.opciones) :
          \E t \in Rewrites(pregunta.opciones[i].texto) :
             pregunta' = [pregunta EXCEPT !.opciones[i].texto = t]
    /\ UNCHANGED <<hashOriginal, notHash>>

\* Two options change places.
PermuteOpciones ==
    /\ \E i, j \in 1..Len(pregunta.opciones) :
          /\ i < j
          /\ pregunta.opciones[i] # pregunta.opciones[j]
          /\ pregunta' = [pregunta EXCEPT !.opciones[i] = pregunta.opciones[j],
                                          !.opciones[j] = pregunta.opciones[i]]
    /\ UNCHANGED <<hashOriginal, notHash>>

-----------------------------------------------------------------------------
(***************************************************************************)
(* THE PASS RULE                                                           *)
(* A percentage is the fraction num/den of two integers, so that           *)
(* correct / total * 100 is exact: [num |-> correct * 100, den |-> total]. *)
(***************************************************************************)

Topics == 1..11

\* percentage < n
PctLess(p, n) == p.num < n * p.den

\* percentage <= n
PctLessEq(p, n) == p.num <= n * p.den

\* The ceilings of checkIfPassed with that of topic 5 one too high.
criticalUTsLoose == (5 :> 3) @@ (6 :> 5) @@ (11 :> 2)

\* criticalUTs of checkIfPassed: topic -> most errors allowed.
criticalUTs == (5 :> 2) @@ (6 :> 5) @@ (11 :> 2)

\* checkIfPassed with the overall rule written "percentage <= 65".
checkIfPassedStrict(p, ut) ==
    IF PctLessEq(p, 65) THEN FALSE
    ELSE IF \E u \in DOMAIN criticalUTs : ut[u].errors > criticalUTs[u] THEN FALSE
    ELSE TRUE

\* checkIfPassed(percentage, utResults)
checkIfPassed(p, ut) ==
    IF PctLess(p, 65) THEN FALSE
    ELSE IF \E u \in DOMAIN criticalUTs : ut[u].errors > criticalUTs[u] THEN FALSE
    ELSE TRUE

\* The rows of ut_configuration: ut_number, questions_per_exam,
\* max_errors_allowed (Null: no limit, else <<the limit>>), is_critical.
UTRow(n, q, m, c) ==
    [ut_number |-> n, questions_per_exam |-> q, max_errors_allowed |-> m,
     is_critical |-> c]

ut_configuration ==
    <<UTRow(1, 4, Null, FALSE), UTRow(2, 2, Null, FALSE), UTRow(3, 4, Null, FALSE),
      UTRow(4, 2, Null, FALSE), UTRow(5, 5, <<2>>, TRUE), UTRow(6, 10, <<5>>, TRUE),
      UTRow(7, 2, Null, FALSE), UTRow(8, 3, Null, FALSE), UTRow(9, 4, Null, FALSE),
      UTRow(10, 5, Null, FALSE), UTRow(11, 4, <<2>>, TRUE)>>

\* The denominator of the percentages drawn: 13/20 is 65%, 14/20 70%, 16/20 80%.
PassTotal == 20

\* How far above its ceiling the errors of a critical topic are drawn.
ExtraErrors == 1

\* The error counts drawn for topic u.
DrawnErrors(u) ==
    IF u \in DOMAIN criticalUTs THEN 0..(criticalUTs[u] + ExtraErrors) ELSE {0}

PassDrawn ==
    /\ percentage \in {[num |-> c * 100, den |-> PassTotal] : c \in 0..PassTotal}
    /\ utResults \in
          {[u \in Topics |-> [correct |-> 0, total |-> 0,
                              errors |-> IF u \in DOMAIN e THEN e[u] ELSE 0]] :
             e \in {f \in [DOMAIN criticalUTs -> 0..(PassTotal + ExtraErrors)] :
                      \A u \in DOMAIN f : f[u] \in DrawnErrors(u)}}
    /\ passed = Null

\* The call checkIfPassed(percentage, utResults).
CheckIfPassed ==
    /\ passed = Null
    /\ passed' = <<checkIfPassed(percentage, utResults)>>
    /\ UNCHANGED <<percentage, utResults, notPass>>

-----------------------------------------------------------------------------
(***************************************************************************)
(* SCORING ON THE CLIENT (ExamSystem.calculateAndShowResults)              *)
(***************************************************************************)

NoAnswer == "undefined"

\* The option letters of a question (displayCurrentQuestion).
Letters == {"a", "b", "c", "d"}

\* Questions of a drawn exam.
MaxScoreQuestions == 3

\* The loop of calculateAndShowResults over questionDetails[i..]: acc holds
\* correctAnswers, totalAnswered and utResults.
RECURSIVE TallyFrom(_, _, _, _)
TallyFrom(qd, answers, i, acc) ==
    IF i > Len(qd) THEN acc
    ELSE
      LET question == qd[i]
          userAnswer == answers[question.question_id]
          utNumber == question.ut_number
          a1 == [acc EXCEPT !.utResults[utNumber].total = @ + 1]
          a2 == IF userAnswer = NoAnswer THEN a1
                ELSE IF userAnswer = question.respuesta_correcta
                THEN [a1 EXCEPT !.totalAnswered = @ + 1,
                                !.correctAnswers = @ + 1,
                                !.utResults[utNumber].correct = @ + 1]
                ELSE [a1 EXCEPT !.totalAnswered = @ + 1,
                                !.utResults[utNumber].errors = @ + 1]
      IN  TallyFrom(qd, answers, i + 1, a2)

\* The results object calculateAndShowResults hands to displayResults.
calculateResults(exam, answers) ==
    LET t == TallyFrom(exam.questionDetails, answers, 1,
                 [correctAnswers |-> 0, totalAnswered |-> 0,
                  utResults |-> [u \in Topics |->
                                   [correct |-> 0, total |-> 0, errors |-> 0]]])
        pct == IF t.totalAnswered > 0
               THEN [num |-> t.correctAnswers * 100, den |-> t.totalAnswered]
               ELSE [num |-> 0, den |-> 1]
    IN  [correctAnswers |-> t.correctAnswers,
         totalAnswered |-> t.totalAnswered,
         totalQuestions |-> Len(exam.questions),
         percentage |-> pct,
         passed |-> checkIfPassed(pct, t.utResults),
         utResults |-> t.utResults]

\* The topics and letters of the drawn exams: a free topic and a critical one.
ScoreTopics == {1, 5}
ScoreLetters == {"a", "b"}

\* A question as the exam endpoint delivers it; an annulled question has no
\* correct answer.
DrawnExamQuestions(id) ==
    {[question_id |-> id, ut_number |-> u, respuesta_correcta |-> r, anulada |-> FALSE] :
        u \in ScoreTopics, r \in ScoreLetters}
    \cup {[question_id |-> id, ut_number |-> u, respuesta_correcta |-> NullLetter,
           anulada |-> TRUE] : u \in ScoreTopics}

DrawnExams ==
    {<<[exam_id |-> 1, questions |-> qd, questionDetails |-> qd]>> :
        qd \in {f \in [1..MaxScoreQuestions ->
                        UNION {DrawnExamQuestions(i) : i \in 1..MaxScoreQuestions}] :
                  \A i \in 1..MaxScoreQuestions : f[i].question_id = i}}

ScoreDrawn ==
    /\ currentExam \in DrawnExams
    /\ userAnswers \in [1..MaxScoreQuestions -> ScoreLetters \cup {NoAnswer}]
    /\ section = "exam"
    /\ displayed = Null

\* calculateAndShowResults(): the results are computed and displayed.
CalculateAndShowResults ==
    /\ displayed = Null
    /\ displayed' = <<calculateResults(currentExam[1], userAnswers)>>
    /\ section' = "results"
    /\ UNCHANGED <<currentExam, userAnswers, sessionVars, notExam>>

-----------------------------------------------------------------------------
(***************************************************************************)
(* THE EXAM SESSION OF ExamSystem                                          *)
(* One user on one page.  A handler runs up to its next await in one step; *)
(* confirm() blocks the page, so a handler that asks is one step with the  *)
(* answer as its input.  The exam server (/exams/generate, /questions,     *)
(* /submit) is not among the sources: its three actions follow the         *)
(* specification of the session manager.                                   *)
(***************************************************************************)

\* The seconds of an exam: stands for 90 * 60.
ExamSeconds == 2

\* How far below zero the countdown is followed.
MaxOverrun == 1

\* The questions of an exam.
NumQuestions == 1

\* The intervals the browser can have running at once.
MaxTimers == 2

\* The fetch calls that can be under way at once.
MaxCalls == 1

\* The exams the server creates.
MaxExams == 2

\* this.examTimer = null
NoTimer == 0

QuestionIds == 1..NumQuestions
ExamLetters == {"a", "b"}

\* this.userAnswers = {}
NoAnswers == [q \in QuestionIds |-> NoAnswer]

\* data.questions of an exam.
ExamQuestions == [q \in QuestionIds |-> q]

\* ---- fetch ----
\* A call under way: the endpoint (kind), whether the server has answered
\* (stage), and the request or the response: ok, exam_id, answers.
Request(kind, id, answers) ==
    [kind |-> kind, stage |-> "sent", ok |-> FALSE, exam_id |-> id,
     answers |-> answers]

\* The response to the request c.
Response(c, ok, id) ==
    [kind |-> c.kind, stage |-> "answered", ok |-> ok, exam_id |-> id,
     answers |-> NoAnswers]

CanFetch(cs) == BagCardinality(cs) < MaxCalls

\* fetch(url, ...)
fetch(cs, kind, id, answers) == cs (+) SetToBag({Request(kind, id, answers)})

\* The call c is over.
settle(cs, c) == cs (-) SetToBag({c})

\* The server answers the call c.
respond(cs, c, ok, id) == settle(cs, c) (+) SetToBag({Response(c, ok, id)})

Awaited(kind, stage) == {c \in BagToSet(calls) : c.kind = kind /\ c.stage = stage}

\* ---- setInterval, clearInterval ----
\* tm is [examTimer, intervals].
Timers == [examTimer |-> examTimer, intervals |-> intervals]

FreshTimers(tm) == (1..MaxTimers) \ tm.intervals
CanStartTimer(tm) == FreshTimers(tm) # {}

clearInterval(tm, id) == [tm EXCEPT !.intervals = @ \ {id}]

\* startTimer(): a new interval, whatever this.examTimer held.
startTimer(tm) ==
    LET id == CHOOSE i \in FreshTimers(tm) : \A j \in FreshTimers(tm) : i <= j
    IN  [examTimer |-> id, intervals |-> tm.intervals \cup {id}]

\* pauseExam()
pauseExam(tm) ==
    IF tm.examTimer # NoTimer
    THEN [clearInterval(tm, tm.examTimer) EXCEPT !.examTimer = NoTimer]
    ELSE startTimer(tm)

\* Object.keys(this.userAnswers).length
answeredCount == Cardinality({q \in QuestionIds : userAnswers[q] # NoAnswer})

\* finishExam() up to its await, with the answer given to confirm().
finishExam(tm, confirmFinish) ==
    LET tm1 == IF tm.examTimer # NoTimer THEN clearInterval(tm, tm.examTimer)
               ELSE tm
    IN  IF answeredCount < Len(currentExam[1].questions) /\ ~confirmFinish
        THEN /\ CanStartTimer(tm1)
             /\ examTimer' = startTimer(tm1).examTimer
             /\ intervals' = startTimer(tm1).intervals
             /\ calls' = calls
        ELSE /\ CanFetch(calls)
             /\ examTimer' = tm1.examTimer
             /\ intervals' = tm1.intervals
             /\ calls' = fetch(calls, "submit", currentExam[1].exam_id, userAnswers)

\* timeUp()
timeUp(confirmFinish) == finishExam(clearInterval(Timers, examTimer), confirmFinish)

\* The test of the response of /exams/generate in startNewExam, and the test
\* replaced by true.
GenerateAcceptedAlways(response) == TRUE

GenerateAccepted(response) == response.ok

QuestionsLoaded == currentExam # Null /\ currentExam[1].questionDetails # Null

\* ---- the handlers of ExamSystem ----
\* handleLogin(), with the login accepted.
HandleLogin ==
    /\ section = "auth"
    /\ authToken' = TRUE
    /\ section' = "dashboard"
    /\ UNCHANGED <<currentExam, userAnswers, displayed, examTimer, timeRemaining,
                   intervals, calls, serverExams, notExam>>

\* handleLogout()
HandleLogout ==
    /\ section # "auth"
    /\ authToken' = FALSE
    /\ section' = "auth"
    /\ UNCHANGED <<currentExam, userAnswers, displayed, examTimer, timeRemaining,
                   intervals, calls, serverExams, notExam>>

\* The button "Volver al Inicio" of the results.
ShowDashboard ==
    /\ section = "results"
    /\ section' = "dashboard"
    /\ UNCHANGED <<currentExam, userAnswers, displayed, sessionVars, notExam>>

\* startNewExam() up to the fetch of /exams/generate: startExamBtn of the
\* dashboard or "Nuevo Examen" of the results.
StartNewExam ==
    /\ section \in {"dashboard", "results"}
    /\ CanFetch(calls)
    /\ calls' = fetch(calls, "generate", 0, NoAnswers)
    /\ UNCHANGED <<examVars, authToken, examTimer, timeRemaining, intervals,
                   serverExams, notExam>>

\* startNewExam() from the response of /exams/generate up to the fetch of
\* loadExamQuestions().
GenerateResponse(c) ==
    /\ c \in Awaited("generate", "answered")
    /\ IF GenerateAccepted(c)
       THEN /\ currentExam' = <<[exam_id |-> c.exam_id,
                                 questions |-> ExamQuestions,
                                 questionDetails |-> Null]>>
            /\ userAnswers' = NoAnswers
            /\ timeRemaining' = ExamSeconds
            /\ calls' = fetch(settle(calls, c), "questions", c.exam_id, NoAnswers)
       ELSE /\ calls' = settle(calls, c)
            /\ UNCHANGED <<currentExam, userAnswers, timeRemaining>>
    /\ UNCHANGED <<section, displayed, authToken, examTimer, intervals,
                   serverExams, notExam>>

\* loadExamQuestions() from its response, then the rest of startNewExam():
\* showExamInterface(), startTimer(), displayCurrentQuestion().
QuestionsResponse(c) ==
    /\ c \in Awaited("questions", "answered")
    /\ CanStartTimer(Timers)
    /\ currentExam' = IF c.ok
                      THEN <<[currentExam[1] EXCEPT !.questionDetails = ExamQuestions]>>
                      ELSE currentExam
    /\ section' = "exam"
    /\ examTimer' = startTimer(Timers).examTimer
    /\ intervals' = startTimer(Timers).intervals
    /\ calls' = settle(calls, c)
    /\ UNCHANGED <<userAnswers, displayed, authToken, timeRemaining, serverExams,
                   notExam>>

\* submitExamAnswers() from its response, then displayResults(results) in
\* finishExam().
SubmitResponse(c) ==
    /\ c \in Awaited("submit", "answered")
    /\ IF c.ok
       THEN /\ displayed' = <<[exam_id |-> c.exam_id]>>
            /\ section' = "results"
       ELSE UNCHANGED <<displayed, section>>
    /\ calls' = settle(calls, c)
    /\ UNCHANGED <<currentExam, userAnswers, authToken, examTimer, timeRemaining,
                   intervals, serverExams, notExam>>

\* A fetch rejects (no connection): the catch of the handler awaiting it.
\* After the catch of loadExamQuestions() startNewExam() goes on.
FetchFails(c) ==
    /\ c \in BagToSet(calls)
    /\ calls' = settle(calls, c)
    /\ IF c.kind = "questions"
       THEN /\ CanStartTimer(Timers)
            /\ section' = "exam"
            /\ examTimer' = startTimer(Timers).examTimer
            /\ intervals' = startTimer(Timers).intervals
       ELSE UNCHANGED <<section, examTimer, intervals>>
    /\ UNCHANGED <<currentExam, userAnswers, displayed, authToken, timeRemaining,
                   serverExams, notExam>>

\* saveAnswer that keeps the answer a question already has.
SaveAnswerKeepsFirst(questionId, answer) ==
    /\ section = "exam"
    /\ QuestionsLoaded
    /\ userAnswers' = IF userAnswers[questionId] = NoAnswer
                      THEN [userAnswers EXCEPT ![questionId] = answer]
                      ELSE userAnswers
    /\ answerLog' = <<questionId, answer>>
    /\ UNCHANGED <<currentExam, section, displayed, sessionVars, hashVars,
                   passVars, explVars, asmVars, viewerVars>>

\* saveAnswer(questionId, answer): a radio button of the question shown.
SaveAnswer(questionId, answer) ==
    /\ section = "exam"
    /\ QuestionsLoaded
    /\ userAnswers' = [userAnswers EXCEPT ![questionId] = answer]
    /\ answerLog' = <<questionId, answer>>
    /\ UNCHANGED <<currentExam, section, displayed, sessionVars, hashVars,
                   passVars, explVars, asmVars, viewerVars>>

\* pauseExam(): pauseBtn.
PauseExam ==
    /\ section = "exam"
    /\ examTimer = NoTimer => CanStartTimer(Timers)
    /\ examTimer' = pauseExam(Timers).examTimer
    /\ intervals' = pauseExam(Timers).intervals
    /\ UNCHANGED <<examVars, authToken, timeRemaining, calls, serverExams, notExam>>

\* finishExam(): finishBtn, shown with the last question.
FinishExam(confirmFinish) ==
    /\ section = "exam"
    /\ QuestionsLoaded
    /\ finishExam(Timers, confirmFinish)
    /\ UNCHANGED <<examVars, authToken, timeRemaining, serverExams, notExam>>

\* The callback of the interval id, once a second, while time is left after it.
Tick(id) ==
    /\ id \in intervals
    /\ timeRemaining - 1 > 0
    /\ timeRemaining' = timeRemaining - 1
    /\ UNCHANGED <<examVars, authToken, examTimer, intervals, calls, serverExams,
                   notExam>>

\* The callback of the interval id when no time is left after it: timeUp().
TickTimeUp(id, confirmFinish) ==
    /\ id \in intervals
    /\ timeRemaining - 1 <= 0
    /\ timeRemaining > -MaxOverrun
    /\ timeRemaining' = timeRemaining - 1
    /\ timeUp(confirmFinish)
    /\ UNCHANGED <<examVars, authToken, serverExams, notExam>>

\* ---- the exam server ----
ActiveExams == {i \in 1..Len(serverExams) : serverExams[i].status = "in_progress"}

\* POST /exams/generate: SessionConflict when the user has an active exam.
ServerGenerate(c) ==
    /\ c \in Awaited("generate", "sent")
    /\ IF ActiveExams # {}
       THEN /\ calls' = respond(calls, c, FALSE, 0)
            /\ UNCHANGED serverExams
       ELSE /\ Len(serverExams) < MaxExams
            /\ serverExams' = Append(serverExams,
                                     [status |-> "in_progress", answers |-> NoAnswers])
            /\ calls' = respond(calls, c, TRUE, Len(serverExams) + 1)
    /\ UNCHANGED <<examVars, authToken, examTimer, timeRemaining, intervals, notExam>>

\* GET /exams/{id}/questions
ServerQuestions(c) ==
    /\ c \in Awaited("questions", "sent")
    /\ calls' = respond(calls, c, c.exam_id \in 1..Len(serverExams), c.exam_id)
    /\ UNCHANGED <<examVars, authToken, examTimer, timeRemaining, intervals,
                   serverExams, notExam>>

\* POST /exams/{id}/submit: the exam is completed and scored with the answers
\* sent; a completed exam answers with the result it has stored.  The result
\* of exam id is serverExams[id].
ServerSubmit(c) ==
    /\ c \in Awaited("submit", "sent")
    /\ calls' = respond(calls, c, c.exam_id \in 1..Len(serverExams), c.exam_id)
    /\ IF c.exam_id \in 1..Len(serverExams)
          /\ serverExams[c.exam_id].status = "in_progress"
       THEN serverExams' = [serverExams EXCEPT
                              ![c.exam_id] = [status |-> "completed",
                                              answers |-> c.answers]]
       ELSE UNCHANGED serverExams
    /\ UNCHANGED <<examVars, authToken, examTimer, timeRemaining, intervals,
                   notExam>>

-----------------------------------------------------------------------------
(***************************************************************************)
(* THE EXAM ASSEMBLER                                                      *)
(* The tables user_exams, exam_questions and ut_configuration are those of *)
(* the schema.  The code that fills them (POST /exams/generate) is not     *)
(* among the sources: assemble follows the specification of the exam       *)
(* assembler.  A fingerprint is the stored hash_pregunta of a question.    *)
(***************************************************************************)

\* exam_questions.question_order is at most 45; user_exams.total_questions
\* defaults to 45.
ExamTotal == 45

\* How many rotations of the draw order and of the list positions are tried.
MaxShift == 2

\* ut_configuration.questions_per_exam of topic ut.
questions_per_exam(ut) == ut_configuration[ut].questions_per_exam

\* The constraints of table exam_questions on the rows of one exam: the
\* CHECKs of question_order and ut_number, UNIQUE(user_exam_id,
\* question_order) and UNIQUE(user_exam_id, question_id).
exam_questions_check(rows) ==
    /\ \A r \in rows : r.question_order >= 1 /\ r.question_order <= ExamTotal
    /\ \A r \in rows : r.ut_number >= 1 /\ r.ut_number <= 11
    /\ \A r1, r2 \in rows : r1.question_order = r2.question_order => r1 = r2
    /\ \A r1, r2 \in rows : r1.question_id = r2.question_id => r1 = r2

\* ---- the question pool ----
RECURSIVE QuotaBelow(_)
\* The questions the topics before ut have in an exam.
QuotaBelow(ut) ==
    IF ut = 1 THEN 0
    ELSE QuotaBelow(ut - 1) + ut_configuration[ut - 1].questions_per_exam

\* The first of the questions 1, 2, ... that belongs to topic ut, and the topic
\* of question i, when every topic has as many questions as an exam takes.
FirstOf(ut) == QuotaBelow(ut) + 1
TopicOf(i) == CHOOSE ut \in Topics : FirstOf(ut) <= i /\ i < FirstOf(ut + 1)

Question(id, ut, fp) == [question_id |-> id, ut_number |-> ut, fingerprint |-> fp]

\* A pool that holds exactly the questions of one exam, all different.
BasePool == {Question(i, TopicOf(i), i) : i \in 1..QuotaBelow(12)}

\* One more question, of any topic: new, or the text of the first question
\* of some topic once more.
SpareQuestions ==
    {Question(QuotaBelow(12) + 1, ut, fp) :
       ut \in Topics, fp \in {QuotaBelow(12) + 1} \cup {FirstOf(u) : u \in Topics}}

\* The pools drawn: the base pool, with or without a spare question, with or
\* without the first question of one topic.
DrawnPools ==
    {(BasePool \ gone) \cup spare :
       gone \in {{}} \cup {{Question(FirstOf(u), u, FirstOf(u))} : u \in Topics},
       spare \in {{}} \cup {{q} : q \in SpareQuestions}}

PoolDrawn == pool \in DrawnPools /\ exam_questions = <<>>

\* byTopic(topicId)
byTopic(ut) == {q \in pool : q.ut_number = ut}

\* ---- assemble ----
RECURSIVE InIdOrder(_)
\* The questions of S as a sequence, by question_id.
InIdOrder(S) ==
    IF S = {} THEN <<>>
    ELSE LET first == CHOOSE q \in S : \A o \in S : q.question_id <= o.question_id
         IN  <<first>> \o InIdOrder(S \ {first})

\* Sequence s begun at its element k + 1.
Rotate(s, k) ==
    IF s = <<>> THEN s
    ELSE [i \in 1..Len(s) |-> s[((i - 1 + k) % Len(s)) + 1]]

FingerprintsOf(taken) == {taken[i].fingerprint : i \in 1..Len(taken)}

RECURSIVE DrawUnguarded(_, _, _)
\* Draw without the duplicate guard.
DrawUnguarded(candidates, n, taken) ==
    IF n = 0 THEN [ok |-> TRUE, questions |-> taken]
    ELSE IF candidates = <<>> THEN [ok |-> FALSE, questions |-> <<>>]
    ELSE DrawUnguarded(Tail(candidates), n - 1, Append(taken, Head(candidates)))

RECURSIVE Draw(_, _, _)
\* Draw n questions from the candidates in their order, without replacement,
\* rejecting a candidate whose fingerprint is already in the exam under
\* construction (taken).  Not ok: the candidates do not hold n such questions.
Draw(candidates, n, taken) ==
    IF n = 0 THEN [ok |-> TRUE, questions |-> taken]
    ELSE IF candidates = <<>> THEN [ok |-> FALSE, questions |-> <<>>]
    ELSE IF Head(candidates).fingerprint \in FingerprintsOf(taken)
         THEN Draw(Tail(candidates), n, taken)
         ELSE Draw(Tail(candidates), n - 1, Append(taken, Head(candidates)))

RECURSIVE AssembleFrom(_, _, _)
\* The topics ut..11 are drawn, in the order of ut_configuration.  The random
\* order of a draw is the rotation of the topic's questions by shift.
AssembleFrom(ut, shift, taken) ==
    IF ut > 11 THEN [ok |-> TRUE, topic |-> 0, questions |-> taken]
    ELSE LET d == Draw(Rotate(InIdOrder(byTopic(ut)), shift),
                       questions_per_exam(ut), taken)
         IN  IF d.ok THEN AssembleFrom(ut + 1, shift, d.questions)
             ELSE [ok |-> FALSE, topic |-> ut, questions |-> <<>>]

\* assemble(userId, filters): the exam, or InsufficientPoolError{topic}.
assemble(shift) == AssembleFrom(1, shift, <<>>)

\* The rows of exam_questions for the questions drawn: the list positions
\* are those of the draw, shuffled (rotated by shift).
RowsOf(questions, shift) ==
    {[question_id |-> questions[i].question_id,
      question_order |-> ((i - 1 + shift) % Len(questions)) + 1,
      ut_number |-> questions[i].ut_number] : i \in 1..Len(questions)}

\* POST /exams/generate with the assembler: SessionConflict when the user
\* has an active exam; else the exam is assembled, and the exam, its rows
\* and its session (status in_progress) are stored as one unit, or nothing
\* is.
ServerAssemble(c, shift) ==
    /\ c \in Awaited("generate", "sent")
    /\ LET a == assemble(shift)
           rows == RowsOf(a.questions, shift)
       IN  IF ActiveExams # {} \/ ~a.ok \/ ~exam_questions_check(rows)
           THEN /\ calls' = respond(calls, c, FALSE, 0)
                /\ UNCHANGED <<serverExams, exam_questions>>
           ELSE /\ Len(serverExams) < MaxExams
                /\ serverExams' = Append(serverExams,
                                         [status |-> "in_progress",
                                          answers |-> NoAnswers])
                /\ exam_questions' = Append(exam_questions, rows)
                /\ calls' = respond(calls, c, TRUE, Len(serverExams) + 1)
    /\ UNCHANGED <<examVars, authToken, examTimer, timeRemaining, intervals,
                   hashVars, passVars, explVars, pool, consoleVars, viewerVars>>

-----------------------------------------------------------------------------
(***************************************************************************)
(* THE EXPLANATIONS OF ExamViewer                                          *)
(* An explanation is known by the number of the generator request that     *)
(* produced it.  Every question of the list has a fingerprint and a        *)
(* .btn-explanation button.                                                *)
(***************************************************************************)

\* The generateExplanation calls that can be under way at once.
MaxExplCalls == 2

\* The requests the generator answers for one fingerprint.
MaxGenerations == 2

ExplHashes == {"h1", "h2"}

\* checkExplanationExists(hashPregunta)
checkExplanationExists(hashPregunta) == hashPregunta \in DOMAIN explicaciones

\* this.explicaciones[hashPregunta] = explicacion
putExplanation(cache, hashPregunta, explicacion) ==
    [h \in DOMAIN cache \cup {hashPregunta} |->
        IF h = hashPregunta THEN explicacion ELSE cache[h]]

\* renderExplanationButton(question), as the state of the button.
renderExplanationButton(hashPregunta) ==
    IF checkExplanationExists(hashPregunta) THEN "view" ELSE "generate"

\* A generateExplanation call: awaiting callOpenAI (sent, then answered) or
\* awaiting saveExplanation (saving).
ExplCall(hashPregunta, stage, ok, explicacion) ==
    [hash |-> hashPregunta, stage |-> stage, ok |-> ok, explicacion |-> explicacion]

ExplAwaited(stage) == {c \in BagToSet(explCalls) : c.stage = stage}

\* The list before any explanation is loaded.
ExplInit ==
    /\ explicaciones = <<>>
    /\ explButton = [h \in ExplHashes |-> "generate"]
    /\ explCalls = EmptyBag
    /\ generatorCalls = [h \in ExplHashes |-> 0]

\* renderQuestions(): the list is drawn again (a filter, a page), each
\* button by renderExplanationButton.
RenderQuestions ==
    /\ explButton' = [h \in ExplHashes |-> renderExplanationButton(h)]
    /\ explButton' # explButton
    /\ UNCHANGED <<explicaciones, explCalls, generatorCalls, notExpl>>

\* generateExplanation(hashPregunta) up to the fetch of callOpenAI: a click
\* on a button that offers to generate.
GenerateExplanation(hashPregunta) ==
    /\ explButton[hashPregunta] = "generate"
    /\ BagCardinality(explCalls) < MaxExplCalls
    /\ explButton' = [explButton EXCEPT ![hashPregunta] = "loading"]
    /\ explCalls' = explCalls (+) SetToBag({ExplCall(hashPregunta, "sent", FALSE, 0)})
    /\ UNCHANGED <<explicaciones, generatorCalls, notExpl>>

\* POST /generar-explicacion: the generator answers with a new explanation,
\* or with an error.
Generator(c, ok) ==
    /\ c \in ExplAwaited("sent")
    /\ generatorCalls[c.hash] < MaxGenerations
    /\ generatorCalls' = [generatorCalls EXCEPT ![c.hash] = @ + 1]
    /\ explCalls' = (explCalls (-) SetToBag({c}))
                    (+) SetToBag({ExplCall(c.hash, "answered", ok,
                                           IF ok THEN generatorCalls[c.hash] + 1
                                           ELSE 0)})
    /\ UNCHANGED <<explicaciones, explButton, notExpl>>

\* ExplanationResponse with a catch that does not restore the button.
ExplanationResponseKeepsLoading(c) ==
    /\ c \in ExplAwaited("answered")
    /\ IF c.ok
       THEN /\ explicaciones' = putExplanation(explicaciones, c.hash, c.explicacion)
            /\ explCalls' = (explCalls (-) SetToBag({c}))
                            (+) SetToBag({ExplCall(c.hash, "saving", TRUE,
                                                   c.explicacion)})
            /\ UNCHANGED explButton
       ELSE /\ explCalls' = explCalls (-) SetToBag({c})
            /\ UNCHANGED <<explicaciones, explButton>>
    /\ UNCHANGED <<generatorCalls, notExpl>>

\* generateExplanation() from the response of callOpenAI: saveExplanation()
\* up to its await, or the catch.
ExplanationResponse(c) ==
    /\ c \in ExplAwaited("answered")
    /\ IF c.ok
       THEN /\ explicaciones' = putExplanation(explicaciones, c.hash, c.explicacion)
            /\ explCalls' = (explCalls (-) SetToBag({c}))
                            (+) SetToBag({ExplCall(c.hash, "saving", TRUE,
                                                   c.explicacion)})
            /\ UNCHANGED explButton
       ELSE /\ explButton' = [explButton EXCEPT ![c.hash] = "generate"]
            /\ explCalls' = explCalls (-) SetToBag({c})
            /\ UNCHANGED explicaciones
    /\ UNCHANGED <<generatorCalls, notExpl>>

\* generateExplanation() after saveExplanation(): the cache entry is set
\* again and the button shows the explanation.
ExplanationSaved(c) ==
    /\ c \in ExplAwaited("saving")
    /\ explicaciones' = putExplanation(explicaciones, c.hash, c.explicacion)
    /\ explButton' = [explButton EXCEPT ![c.hash] = "view"]
    /\ explCalls' = explCalls (-) SetToBag({c})
    /\ UNCHANGED <<generatorCalls, notExpl>>

\* ---- the questions of the list ----
\* The exams in which the content of one fingerprint appears.
ExplExams == {"e1", "e2"}

\* The questions of the list: each fingerprint in each exam.
ListQuestions ==
    {[examen_test |-> e, hash_pregunta |-> h] : e \in ExplExams, h \in ExplHashes}

\* A key that is the exam of the question instead of its fingerprint.
getExplanationHashOfExam(question) == question.examen_test

\* getExplanationHash(question), for a question that has a hash_pregunta.
getExplanationHash(question) == question.hash_pregunta

\* showExplanation(hashPregunta): <<the explanation shown>>, Null when the
\* explanation is not available.
showExplanation(hashPregunta) ==
    IF hashPregunta \in DOMAIN explicaciones THEN <<explicaciones[hashPregunta]>>
    ELSE Null

\* ---- the edit modal of a question ----
\* deleteExplanation(hashPregunta): delete this.explicaciones[hashPregunta]
\* when confirm() is answered with yes.
deleteExplanation(cache, hashPregunta, confirmDelete) ==
    IF ~confirmDelete THEN cache
    ELSE IF DOMAIN cache \subseteq {hashPregunta} THEN <<>>
    ELSE [h \in DOMAIN cache \ {hashPregunta} |-> cache[h]]

\* The button "Eliminar" of renderExplanationActions: shown when the
\* question has an explanation.
DeleteExplanation(hashPregunta, confirmDelete) ==
    /\ checkExplanationExists(hashPregunta)
    /\ explicaciones' = deleteExplanation(explicaciones, hashPregunta, confirmDelete)
    /\ UNCHANGED <<explButton, explCalls, generatorCalls, notExpl>>

\* regenerateExplanation(hashPregunta), the button "Regenerar" shown when
\* the question has an explanation: deleteExplanation(), then
\* generateExplanation() is set to run after 500 ms.
RegenerateExplanation(hashPregunta, confirmDelete) ==
    /\ checkExplanationExists(hashPregunta)
    /\ BagCardinality(explCalls) < MaxExplCalls
    /\ explicaciones' = deleteExplanation(explicaciones, hashPregunta, confirmDelete)
    /\ explCalls' = explCalls
                    (+) SetToBag({ExplCall(hashPregunta, "timeout", FALSE, 0)})
    /\ UNCHANGED <<explButton, generatorCalls, notExpl>>

\* The timeout of regenerateExplanation(): generateExplanation(hashPregunta)
\* up to the fetch of callOpenAI.
RegenerateTimeout(c) ==
    /\ c \in ExplAwaited("timeout")
    /\ explButton' = [explButton EXCEPT ![c.hash] = "loading"]
    /\ explCalls' = (explCalls (-) SetToBag({c}))
                    (+) SetToBag({ExplCall(c.hash, "sent", FALSE, 0)})
    /\ UNCHANGED <<explicaciones, generatorCalls, notExpl>>

-----------------------------------------------------------------------------
(***************************************************************************)
(* THE QUESTION BANK OF ExamViewer AND ITS EDIT MODAL                      *)
(* this.data.examenes is a sequence of exams [titulacion, preguntas]; a    *)
(* question is [numero, enunciado, opciones, respuesta_correcta, tema,     *)
(* anulada, hash_pregunta], an option [letra, texto].                      *)
(***************************************************************************)

\* The occurrences of the bank: <<e, i>> is examenes[e].preguntas[i].
Occurrences(examenes) ==
    {o \in (1..Len(examenes)) \X (1..2) : o[2] <= Len(examenes[o[1]].preguntas)}

\* findAllQuestionsByHash(hashPregunta): the occurrences whose
\* getExplanationHash is hashPregunta (null === null included).
findAllQuestionsByHash(examenes, hashPregunta) ==
    {o \in Occurrences(examenes) :
        getExplanationHash(examenes[o[1]].preguntas[o[2]]) = hashPregunta}

\* The values of the edit form: the text fields as typed, before .trim().
EditForms ==
    [editEnunciado : {<<" ">>, <<"a">>, <<"a", "a">>},
     editOpcion1 : {<<>>, <<"a">>},
     editRespuestaCorrecta : {"", "a"},
     editTema : {""},
     editAnulada : BOOLEAN,
     editTitulacion : {"PER", "PNB"},
     editNumero : {1, 51}]

\* nuevasOpciones of saveQuestionChanges: the option inputs, trimmed.
nuevasOpciones(form) ==
    <<[letra |-> "A", texto |-> trim(form.editOpcion1)],
      [letra |-> "B", texto |-> <<"A", ",", "a">>]>>

\* The validations of saveQuestionChanges: TRUE when none of them returns.
validaciones(form) ==
    /\ trim(form.editEnunciado) # <<>>
    /\ ~ \E i \in 1..2 : nuevasOpciones(form)[i].texto = <<>>
    /\ ~ (form.editRespuestaCorrecta = "" /\ ~ form.editAnulada)
    /\ ~ (form.editNumero < 1 \/ form.editNumero > 50)

\* preguntaActualizada of saveQuestionChanges spread over the occurrence:
\* { ...examen.preguntas[index], ...preguntaActualizada }.
preguntaActualizada(question, form) ==
    [question EXCEPT
        !.numero = form.editNumero,
        !.enunciado = trim(form.editEnunciado),
        !.opciones = nuevasOpciones(form),
        !.respuesta_correcta =
            IF form.editAnulada THEN Null ELSE <<form.editRespuestaCorrecta>>,
        !.tema = IF form.editTema = "" THEN Null ELSE <<form.editTema>>,
        !.anulada = form.editAnulada]

\* The hash the question is given after the update: calculateQuestionHashSync
\* of the updated question, when the question has a hash_pregunta.
nuevoHash(question) ==
    IF question.hash_pregunta # Null THEN calculateQuestionHashSync(question)
    ELSE question.hash_pregunta

\* The forEach of saveQuestionChanges over todasLasPreguntas.
updateAll(examenes, todasLasPreguntas, form) ==
    [e \in 1..Len(examenes) |->
        LET examen == examenes[e]
            touched == \E o \in todasLasPreguntas : o[1] = e
        IN  [titulacion |->
                IF touched /\ form.editTitulacion # examen.titulacion
                THEN form.editTitulacion ELSE examen.titulacion,
             preguntas |->
                [i \in 1..Len(examen.preguntas) |->
                    IF <<e, i>> \in todasLasPreguntas
                    THEN LET q == preguntaActualizada(examen.preguntas[i], form)
                         IN  [q EXCEPT !.hash_pregunta = nuevoHash(q)]
                    ELSE examen.preguntas[i]]]]

\* saveQuestionChanges(pregunta, questionId) for the occurrence o the modal
\* was opened on, with the form filled as form.
saveQuestionChanges(examenes, o, form) ==
    LET hashDeLaPregunta == getExplanationHash(examenes[o[1]].preguntas[o[2]])
        todasLasPreguntas == findAllQuestionsByHash(examenes, hashDeLaPregunta)
    IN  IF ~ validaciones(form) THEN examenes
        ELSE IF todasLasPreguntas = {} THEN examenes
        ELSE updateAll(examenes, todasLasPreguntas, form)

\* The fingerprint of a bank question, as the hash of a drawn question.
DrawnHash(enunciado, opciones) ==
    calculateQuestionHashSync([enunciado |-> enunciado, opciones |-> opciones,
                               hash_pregunta |-> Null])

\* The questions of the bank drawn: one of two prompts, with the hash of the
\* content or without hash.
BankQuestions ==
    {[numero |-> 1, enunciado |-> t, opciones |-> nuevasOpciones([editOpcion1 |-> <<"a">>]),
      respuesta_correcta |-> <<"a">>, tema |-> Null, anulada |-> FALSE,
      hash_pregunta |-> h] :
        t \in {<<"a">>, <<"a", "a">>},
        h \in {Null} }
    \cup
    {[numero |-> 1, enunciado |-> t, opciones |-> nuevasOpciones([editOpcion1 |-> <<"a">>]),
      respuesta_correcta |-> <<"a">>, tema |-> Null, anulada |-> FALSE,
      hash_pregunta |-> DrawnHash(t, nuevasOpciones([editOpcion1 |-> <<"a">>]))] :
        t \in {<<"a">>, <<"a", "a">>}}

\* The banks drawn: a PER exam of two questions and a PNB exam of one.
BankDrawn ==
    \E q1 \in BankQuestions, q2 \in BankQuestions, q3 \in BankQuestions :
        data = <<[titulacion |-> "PER", preguntas |-> <<q1, q2>>],
                 [titulacion |-> "PNB", preguntas |-> <<q3>>]>>

\* 'Guardar' in the edit modal of occurrence o.
SaveQuestionChanges(o, form) ==
    /\ o \in Occurrences(data)
    /\ data' = saveQuestionChanges(data, o, form)
    /\ UNCHANGED <<hashVars, passVars, examVars, sessionVars, explVars, asmVars,
                   consoleVars, listVars>>

------------------------------------------------------------------------------
(***************************************************************************)
(* THE QUESTION LIST OF ExamViewer: FILTERS, DEDUPLICATION, PAGES          *)
(* The filters convocatoria and test stay 'all' and are left out of        *)
(* this.filters; the search text is '' or one character.                   *)
(***************************************************************************)

\* this.questionsPerPage of the constructor.
questionsPerPage == 10

\* The most questions the first exam of a drawn bank holds.
MaxListQuestions == 21

\* The concatenation of the sequences of a sequence.
RECURSIVE Flatten(_)
Flatten(seqs) ==
    IF seqs = <<>> THEN <<>> ELSE Head(seqs) \o Flatten(Tail(seqs))

\* testIdentifier of applyFilters: numero_test, with ' (Liberado)' added for
\* a released PER exam.
testIdentifier(examen) ==
    IF examen.titulacion = "PER" /\ examen.tipo_examen = "PER_LIBERADO"
    THEN <<examen.numero_test, " (Liberado)">>
    ELSE <<examen.numero_test>>

\* allQuestions of applyFilters: every question with the data of its exam.
allQuestions(examenes) ==
    Flatten([e \in 1..Len(examenes) |->
        [i \in 1..Len(examenes[e].preguntas) |->
            [examen_titulacion |-> examenes[e].titulacion,
             examen_convocatoria |-> examenes[e].convocatoria,
             examen_test |-> testIdentifier(examenes[e]),
             examen_tipo |-> examenes[e].tipo_examen]
            @@ examenes[e].preguntas[i]]])

\* String.prototype.includes for a search text of at most one character.
includes(texto, searchText) ==
    searchText = "" \/ \E i \in 1..Len(texto) : texto[i] = searchText

\* `${examen_titulacion}_${examen_test}_${numero}`.toLowerCase(), the
\* characters of numero_test and numero being digits.
questionId(question) ==
    (IF question.examen_titulacion = "PER" THEN <<"p", "e", "r">>
     ELSE <<"p", "n", "b">>) \o <<"_", "0", "_", "0">>

\* The filter function of applyFilters.
passesFilters(question, f) ==
    /\ ~ (f.titulacion # "all" /\ question.examen_titulacion # f.titulacion)
    /\ ~ (f.tema # "all" /\ question.tema # f.tema)
    /\ ~ (/\ f.search # ""
          /\ ~ includes(toLowerCase(question.enunciado), f.search)
          /\ ~ includes(questionId(question), f.search))

\* The entry of todas_apariciones for one occurrence.
aparicion(q) ==
    [examen_titulacion |-> q.examen_titulacion,
     examen_convocatoria |-> q.examen_convocatoria,
     examen_test |-> q.examen_test,
     numero |-> q.numero]

\* deduplicateQuestions(questions): the Map keeps, in insertion order, the
\* first question of every hash_pregunta that is set, with todas_apariciones.
deduplicateQuestions(questions) ==
    LET first(i) ==
            /\ questions[i].hash_pregunta # Null
            /\ \A j \in 1..(i - 1) :
                  questions[j].hash_pregunta # questions[i].hash_pregunta
        kept == SelectSeq([i \in 1..Len(questions) |-> i], first)
        allOccurrences(hash) ==
            SelectSeq(questions, LAMBDA q : q.hash_pregunta = hash)
        todas(hash) ==
            [k \in 1..Len(allOccurrences(hash)) |-> aparicion(allOccurrences(hash)[k])]
    IN  [k \in 1..Len(kept) |->
            [todas_apariciones |-> todas(questions[kept[k]].hash_pregunta)]
            @@ questions[kept[k]]]

\* this.filteredQuestions as applyFilters computes it.
filtered(examenes, f) ==
    LET passing == SelectSeq(allQuestions(examenes), LAMBDA q : passesFilters(q, f))
    IN  IF ~ f.duplicados THEN deduplicateQuestions(passing) ELSE passing

\* Math.ceil(a / b) for a >= 0, b > 0.
ceilDiv(a, b) == (a + b - 1) \div b

\* Math.min and Math.max.
min(a, b) == IF a <= b THEN a ELSE b
max(a, b) == IF a >= b THEN a ELSE b

\* renderQuestions(): the question cards put into #questionsContainer.
renderQuestions(questions, page) ==
    IF Len(questions) = 0 THEN <<>>
    ELSE LET startIndex == (page - 1) * questionsPerPage
             endIndex == min(startIndex + questionsPerPage, Len(questions))
         IN  SubSeq(questions, startIndex + 1, endIndex)

\* renderPagination(): the pages the buttons put into #pagination set.
renderPagination(questions, page) ==
    LET totalPages == ceilDiv(Len(questions), questionsPerPage)
    IN  IF totalPages <= 1 THEN {}
        ELSE (IF page > 1 THEN {page - 1} ELSE {})
             \cup (max(1, page - 2)..min(totalPages, page + 2))
             \cup (IF page < totalPages THEN {page + 1} ELSE {})

\* applyFilters() without the reset of the page.
applyFiltersKeepsPage(f) ==
    /\ filters' = f
    /\ IF data' = Null
       THEN UNCHANGED <<filteredQuestions, currentPage, questionsToShow, pageButtons>>
       ELSE /\ filteredQuestions' = filtered(data', f)
            /\ currentPage' = currentPage
            /\ questionsToShow' = renderQuestions(filtered(data', f), currentPage)
            /\ pageButtons' = renderPagination(filtered(data', f), currentPage)

\* applyFilters() with this.filters = f: the list is filtered, the page is
\* reset and the questions and the page buttons are rendered.
applyFilters(f) ==
    /\ filters' = f
    /\ IF data' = Null
       THEN UNCHANGED <<filteredQuestions, currentPage, questionsToShow, pageButtons>>
       ELSE /\ filteredQuestions' = filtered(data', f)
            /\ currentPage' = 1
            /\ questionsToShow' = renderQuestions(filtered(data', f), 1)
            /\ pageButtons' = renderPagination(filtered(data', f), 1)

\* The temas updateDynamicFilters offers in #filterTema: those of the exams
\* of the titulacion selected.
temasOf(examenes, titulacion) ==
    {examenes[o[1]].preguntas[o[2]].tema :
        o \in {p \in Occurrences(examenes) :
                 titulacion = "all" \/ examenes[p[1]].titulacion = titulacion}}

\* renderSelectOptions('filterTema', temas, ...): a tema that is no longer
\* offered is reset to 'all'.
temaKept(examenes, f) ==
    IF f.tema = "all" \/ f.tema \in temasOf(examenes, f.titulacion)
    THEN f ELSE [f EXCEPT !.tema = "all"]

\* The questions of the banks drawn: question k of an exam, with hash.
ListQuestion(k, hash) ==
    [numero |-> k,
     enunciado |-> IF k % 2 = 0 THEN <<"A">> ELSE <<"a", " ", "b">>,
     tema |-> IF k % 3 = 0 THEN "t2" ELSE "t1",
     hash_pregunta |-> hash]

\* The hashes of the questions of the second exam: those of the first
\* questions of the first exam, hashes of their own, or none.
HashPatterns == {"duplicates", "own", "none"}
ListSizes == {questionsPerPage - 1, questionsPerPage, MaxListQuestions}

\* The banks drawn: a PER exam of n questions with hashes of their own, and
\* a PNB exam of two questions.
ListBank(n, pattern) ==
    <<[titulacion |-> "PER", convocatoria |-> "c1", numero_test |-> "01",
       tipo_examen |-> "PER_NORMAL",
       preguntas |-> [k \in 1..n |-> ListQuestion(k, <<k>>)]],
      [titulacion |-> "PNB", convocatoria |-> "c1", numero_test |-> "01",
       tipo_examen |-> "PNB_NORMAL",
       preguntas |-> [k \in 1..2 |->
           ListQuestion(k, CASE pattern = "duplicates" -> <<k>>
                             [] pattern = "own" -> <<k + MaxListQuestions + 1>>
                             [] pattern = "none" -> Null)]]>>

ListBanks == {ListBank(n, pattern) : n \in ListSizes, pattern \in HashPatterns}

\* convertPostgreSQLData(): the exams of the database, their preguntas empty.
DatabaseBank ==
    [e \in 1..2 |-> [ListBank(0, "none")[e] EXCEPT !.preguntas = <<>>]]

\* init(): loadFromDatabase() loads this.data, renderFilters() and
\* applyFilters() follow; the event listeners are set up.
LoadFromDatabase ==
    /\ data = Null
    /\ data' = DatabaseBank
    /\ applyFilters(temaKept(data', filters))
    /\ UNCHANGED <<hashVars, passVars, examVars, sessionVars, explVars, asmVars,
                   consoleVars>>

\* 'change' of #debugFileSelector: loadData(selectedFile) loads a JSON file
\* of exams, clearFilters() and applyFilters() follow.
ChangeFile ==
    /\ data # Null
    /\ data' \in ListBanks
    /\ applyFilters([titulacion |-> "all", tema |-> "all", duplicados |-> TRUE,
                     search |-> ""])
    /\ UNCHANGED <<hashVars, passVars, examVars, sessionVars, explVars, asmVars,
                   consoleVars>>

\* The rest of a handler of the list, which leaves this.data alone.
ListFrame ==
    /\ data # Null
    /\ UNCHANGED <<data, hashVars, passVars, examVars, sessionVars, explVars,
                   asmVars, consoleVars>>

\* 'change' of #filterTitulacion.
ChangeTitulacion(titulacion) ==
    /\ ListFrame
    /\ applyFilters(temaKept(data, [filters EXCEPT !.titulacion = titulacion]))

\* 'change' of #filterTema, to one of the options offered.
ChangeTema(tema) ==
    /\ ListFrame
    /\ tema \in {"all"} \cup temasOf(data, filters.titulacion)
    /\ applyFilters([filters EXCEPT !.tema = tema])

\* 'change' of the checkbox #filterDuplicados.
ChangeDuplicados ==
    /\ ListFrame
    /\ applyFilters([filters EXCEPT !.duplicados = ~ filters.duplicados])

\* 'input' of #searchInput.
SearchInput(value) ==
    /\ ListFrame
    /\ applyFilters([filters EXCEPT !.search = value])

\* 'click' of #clearSearch.
ClearSearch ==
    /\ ListFrame
    /\ filters.search # ""
    /\ applyFilters([filters EXCEPT !.search = ""])

\* clearFilters(), 'click' of #clearFilters.
ClearFilters ==
    /\ ListFrame
    /\ applyFilters([titulacion |-> "all", tema |-> "all", duplicados |-> TRUE,
                     search |-> ""])

\* 'click' of a page button made by createPageButton(text, page).
PageButton(page) ==
    /\ ListFrame
    /\ page \in pageButtons
    /\ currentPage' = page
    /\ questionsToShow' = renderQuestions(filteredQuestions, page)
    /\ pageButtons' = renderPagination(filteredQuestions, page)
    /\ UNCHANGED <<filters, filteredQuestions>>

------------------------------------------------------------------------------
(***************************************************************************)
(* THE SPECIFICATIONS                                                      *)
(***************************************************************************)

HashIdle == pregunta = Null /\ hashOriginal = Null
PassIdle == percentage = Null /\ utResults = Null /\ passed = Null

\* The explanations before any is loaded.
ExplIdle ==
    /\ explicaciones = <<>>
    /\ explButton = <<>>
    /\ explCalls = <<>>
    /\ generatorCalls = <<>>

\* The page and the server before the first exam.
SessionIdle ==
    /\ authToken = FALSE
    /\ examTimer = NoTimer
    /\ timeRemaining = ExamSeconds
    /\ intervals = {}
    /\ calls = EmptyBag
    /\ serverExams = <<>>
    /\ answerLog = Null

\* ExamSystem after its constructor, without a stored token.
ExamIdle ==
    /\ currentExam = Null
    /\ userAnswers = NoAnswers
    /\ section = "auth"
    /\ displayed = Null
    /\ SessionIdle

\* No question pool, no exam assembled.
AsmIdle == pool = {} /\ exam_questions = <<>>

\* The viewer before its data is loaded (the constructor of ExamViewer).
BankIdle == data = Null
ListIdle ==
    /\ filters = [titulacion |-> "all", tema |-> "all", duplicados |-> TRUE,
                  search |-> ""]
    /\ filteredQuestions = <<>>
    /\ currentPage = 1
    /\ questionsToShow = <<>>
    /\ pageButtons = {}
ViewerIdle == BankIdle /\ ListIdle

InitHash == HashDrawn /\ PassIdle /\ ExamIdle /\ ExplIdle /\ AsmIdle /\ ViewerIdle
NextHash == RewriteEnunciado \/ RewriteOpcion \/ PermuteOpciones
SpecHash == InitHash /\ [][NextHash]_vars

InitPass == PassDrawn /\ HashIdle /\ ExamIdle /\ ExplIdle /\ AsmIdle /\ ViewerIdle
NextPass == CheckIfPassed
SpecPass == InitPass /\ [][NextPass]_vars

InitScore == ScoreDrawn /\ SessionIdle /\ HashIdle /\ PassIdle /\ ExplIdle /\ AsmIdle /\ ViewerIdle
NextScore == CalculateAndShowResults
SpecScore == InitScore /\ [][NextScore]_vars

InitExam == ExamIdle /\ HashIdle /\ PassIdle /\ ExplIdle /\ AsmIdle /\ ViewerIdle
NextExam ==
    \/ HandleLogin
    \/ HandleLogout
    \/ ShowDashboard
    \/ StartNewExam
    \/ \E c \in BagToSet(calls) : GenerateResponse(c)
    \/ \E c \in BagToSet(calls) : QuestionsResponse(c)
    \/ \E c \in BagToSet(calls) : SubmitResponse(c)
    \/ \E c \in BagToSet(calls) : FetchFails(c)
    \/ \E q \in QuestionIds, l \in ExamLetters : SaveAnswer(q, l)
    \/ PauseExam
    \/ \E confirmFinish \in BOOLEAN : FinishExam(confirmFinish)
    \/ \E id \in 1..MaxTimers : Tick(id)
    \/ \E id \in 1..MaxTimers, confirmFinish \in BOOLEAN : TickTimeUp(id, confirmFinish)
    \/ \E c \in BagToSet(calls) : ServerGenerate(c)
    \/ \E c \in BagToSet(calls) : ServerQuestions(c)
    \/ \E c \in BagToSet(calls) : ServerSubmit(c)
SpecExam == InitExam /\ [][NextExam]_vars

\* The session from the login up to, not including, its end: every handler
\* but those that finish an exam.
NextStart ==
    \/ HandleLogin
    \/ HandleLogout
    \/ StartNewExam
    \/ \E c \in BagToSet(calls) : GenerateResponse(c)
    \/ \E c \in BagToSet(calls) : QuestionsResponse(c)
    \/ \E c \in BagToSet(calls) : FetchFails(c)
    \/ \E q \in QuestionIds, l \in ExamLetters : SaveAnswer(q, l)
    \/ PauseExam
    \/ \E id \in 1..MaxTimers : Tick(id)
    \/ \E c \in BagToSet(calls) : ServerGenerate(c)
    \/ \E c \in BagToSet(calls) : ServerQuestions(c)
SpecStart == InitExam /\ [][NextStart]_vars

\* A letter that is no option of any question: options are a, b, c, d.
OtherLetter == "e"

\* The running exam with saveAnswer called by any script of the page, not
\* only by the radio buttons of the question shown.
NextAnswer ==
    \/ NextStart
    \/ \E q \in QuestionIds : SaveAnswer(q, OtherLetter)
SpecAnswer == InitExam /\ [][NextAnswer]_vars

InitExpl == ExplInit /\ HashIdle /\ PassIdle /\ ExamIdle /\ AsmIdle /\ ViewerIdle
NextExpl ==
    \/ RenderQuestions
    \/ \E h \in ExplHashes : GenerateExplanation(h)
    \/ \E c \in BagToSet(explCalls), ok \in BOOLEAN : Generator(c, ok)
    \/ \E c \in BagToSet(explCalls) : ExplanationResponse(c)
    \/ \E c \in BagToSet(explCalls) : ExplanationSaved(c)
    \/ \E h \in ExplHashes, confirmDelete \in BOOLEAN :
          DeleteExplanation(h, confirmDelete)
    \/ \E h \in ExplHashes, confirmDelete \in BOOLEAN :
          RegenerateExplanation(h, confirmDelete)
    \/ \E c \in BagToSet(explCalls) : RegenerateTimeout(c)
SpecExpl == InitExpl /\ [][NextExpl]_vars

\* The start of an exam, with the assembler behind /exams/generate.
InitEdit ==
    /\ BankDrawn /\ ListIdle
    /\ HashIdle /\ PassIdle /\ ExamIdle /\ ExplIdle /\ AsmIdle
NextEdit == \E o \in Occurrences(data), form \in EditForms : SaveQuestionChanges(o, form)
SpecEdit == InitEdit /\ [][NextEdit]_vars

InitList ==
    /\ ViewerIdle
    /\ HashIdle /\ PassIdle /\ ExamIdle /\ ExplIdle /\ AsmIdle
NextList ==
    \/ LoadFromDatabase
    \/ ChangeFile
    \/ \E titulacion \in {"all", "PER", "PNB"} : ChangeTitulacion(titulacion)
    \/ \E tema \in {"all", "t1", "t2"} : ChangeTema(tema)
    \/ ChangeDuplicados
    \/ \E value \in {"a", "b"} : SearchInput(value)
    \/ ClearSearch
    \/ ClearFilters
    \/ \E page \in 1..(MaxListQuestions + 2) : PageButton(page)
SpecList == InitList /\ [][NextList]_vars

InitAssemble == PoolDrawn /\ ExamIdle /\ HashIdle /\ PassIdle /\ ExplIdle /\ ViewerIdle
NextAssemble ==
    \/ HandleLogin
    \/ StartNewExam
    \/ \E c \in BagToSet(calls) : GenerateResponse(c)
    \/ \E c \in BagToSet(calls) : QuestionsResponse(c)
    \/ \E c \in BagToSet(calls) : FetchFails(c)
    \/ \E c \in BagToSet(calls), shift \in 0..MaxShift : ServerAssemble(c, shift)
    \/ \E c \in BagToSet(calls) : ServerQuestions(c)
SpecAssemble == InitAssemble /\ [][NextAssemble]_vars

-----------------------------------------------------------------------------
(***************************************************************************)
(* THE CLAIMS                                                              *)
(***************************************************************************)

\* The calls of callOpenAI under way for the fingerprint h.
GeneratorCallsUnderWay(h) ==
    {c \in BagToSet(explCalls) : c.hash = h /\ c.stage \in {"sent", "answered"}}

\* C1: the requests for the explanation of one fingerprint share one call of
\* the generator: no two calls of callOpenAI are under way for a fingerprint
\* at a time.
C1_OneGeneratorCall ==
    \A h \in ExplHashes :
        \A c, d \in GeneratorCallsUnderWay(h) :
            c = d /\ CopiesIn(c, explCalls) = 1

PctAtLeast(p, n) == p.num >= n * p.den

\* percentage = n
PctIs(p, n) == p.num = n * p.den

\* C2: the exam is passed exactly when the overall percentage is at least 65
\* and no critical topic of ut_configuration has more errors than its
\* ceiling; 80% with 6 errors in topic 6 fails, 70% with every critical topic
\* within its ceiling passes.
C2_PassRule ==
    passed # Null =>
       /\ passed[1] = (/\ PctAtLeast(percentage, 65)
                       /\ \A n \in DOMAIN ut_configuration :
                             LET row == ut_configuration[n]
                             IN  row.is_critical =>
                                   utResults[row.ut_number].errors
                                      <= row.max_errors_allowed[1])
       /\ (PctIs(percentage, 80) /\ utResults[6].errors = 6) => passed[1] = FALSE
       /\ (/\ PctIs(percentage, 70)
           /\ utResults[5].errors <= 2
           /\ utResults[6].errors <= 5
           /\ utResults[11].errors <= 2) => passed[1] = TRUE

\* checkIfPassed has answered for 80% overall with 6 errors in topic 6.
C2_Witness ==
    /\ passed = <<FALSE>>
    /\ PctIs(percentage, 80)
    /\ utResults[6].errors = 6
    /\ utResults[5].errors = 0
    /\ utResults[11].errors = 0

\* The questions of topic u that were not answered correctly.
NotCorrect(u) ==
    LET qd == currentExam[1].questionDetails
    IN  {i \in 1..Len(qd) :
           /\ qd[i].ut_number = u
           /\ userAnswers[qd[i].question_id] # qd[i].respuesta_correcta}

NoneAnnulled ==
    \A i \in 1..Len(currentExam[1].questionDetails) :
        ~currentExam[1].questionDetails[i].anulada

\* C3: in the results of an exam without annulled questions every question
\* not answered correctly, the unanswered ones included, is an error of its
\* topic, and the percentage is correct / number of questions * 100.
C3_UnansweredIsError ==
    (displayed # Null /\ NoneAnnulled) =>
       /\ \A u \in Topics :
             displayed[1].utResults[u].errors = Cardinality(NotCorrect(u))
       /\ displayed[1].percentage.num * displayed[1].totalQuestions
             = displayed[1].correctAnswers * 100 * displayed[1].percentage.den

\* The questions of topic u that are not annulled.
Counted(u) ==
    LET qd == currentExam[1].questionDetails
    IN  {i \in 1..Len(qd) : qd[i].ut_number = u /\ ~qd[i].anulada}

\* C4: the annulled questions add nothing to the totals or to the errors of
\* their topics, whatever was answered: the total of a topic is the number of
\* its questions that are not annulled, and its errors are among those.
C4_AnnulledExcluded ==
    displayed # Null =>
       \A u \in Topics :
          /\ displayed[1].utResults[u].total = Cardinality(Counted(u))
          /\ displayed[1].utResults[u].errors
                <= Cardinality(Counted(u) \cap NotCorrect(u))

\* The states of a session as the page shows them.
InProgress == section = "exam" /\ examTimer \in intervals
Paused == section = "exam" /\ examTimer = NoTimer

\* C6: the user never has two active exams; a start request that reaches the
\* server while an exam is active is answered with a conflict and creates no
\* exam; and the page that receives the conflict keeps its exam, its
\* answers, its remaining time and its countdown as they were.
C6_SessionExclusive ==
    [][/\ Cardinality(ActiveExams) <= 1
       /\ Cardinality(ActiveExams') <= 1
       /\ \A r \in BagToSet(calls') :
             (/\ r.kind = "generate" /\ r.stage = "answered"
              /\ CopiesIn(r, calls') > CopiesIn(r, calls)
              /\ ActiveExams # {})
             => (~r.ok /\ serverExams' = serverExams)
       /\ \A c \in BagToSet(calls) :
             (/\ c.kind = "generate" /\ c.stage = "answered" /\ ~c.ok
              /\ CopiesIn(c, calls') < CopiesIn(c, calls))
             => UNCHANGED <<currentExam, userAnswers, timeRemaining, examTimer,
                            intervals, section, displayed, serverExams>>
      ]_vars

\* A conflict has come back to a page whose exam is running, with an answer
\* recorded and part of the time used.
C6_Witness ==
    /\ \E c \in BagToSet(calls) :
          c.kind = "generate" /\ c.stage = "answered" /\ ~c.ok
    /\ ActiveExams # {}
    /\ QuestionsLoaded
    /\ examTimer \in intervals
    /\ \E q \in QuestionIds : userAnswers[q] # NoAnswer
    /\ timeRemaining < ExamSeconds

\* C7: once the time of an exam is used up its countdown is not running: the
\* session has left in_progress for good.
C7_TimedOutIsTerminal ==
    (section = "exam" /\ timeRemaining <= 0) => ~InProgress

\* C8: while a session stays paused its remaining time stands still.
C8_PausedTimeStands ==
    [][(Paused /\ Paused' /\ currentExam' = currentExam)
          => timeRemaining' = timeRemaining]_vars

\* C9: a session becomes paused only from in_progress, and no submission
\* of a session is sent while it is paused.
C9_PausedOnlyResumes ==
    [][/\ (~Paused /\ Paused') => InProgress
       /\ Paused =>
             \A c \in BagToSet(calls') :
                (c.kind = "submit" /\ c.stage = "sent")
                => CopiesIn(c, calls') <= CopiesIn(c, calls)
      ]_vars

\* C10: while the session is paused or its results are shown, the recorded
\* answers of the exam do not change.
C10_AnswersOnlyInProgress ==
    [][((Paused \/ section = "results") /\ currentExam' = currentExam)
          => userAnswers' = userAnswers]_vars

\* The results of the exam the page holds have been shown: the session is
\* completed.
ResultsShown ==
    /\ currentExam # Null
    /\ displayed # Null
    /\ displayed[1].exam_id = currentExam[1].exam_id

\* C11: once the results of an exam have been shown, no further submission
\* of that exam is sent.
C11_FinishOnce ==
    [][ResultsShown =>
          \A c \in BagToSet(calls') :
             (c.kind = "submit" /\ c.stage = "sent"
              /\ c.exam_id = currentExam[1].exam_id)
             => CopiesIn(c, calls') <= CopiesIn(c, calls)
      ]_vars

\* The fingerprint of the pool question with this id.
FingerprintOfId(id) == (CHOOSE q \in pool : q.question_id = id).fingerprint

\* Two questions of the pool have one fingerprint.
PoolRepeats == \E q1, q2 \in pool : q1 # q2 /\ q1.fingerprint = q2.fingerprint

\* C12: every assembled exam has exactly 45 questions, the sum of the quotas
\* of the 11 topics; of each topic exactly its quota; each list position
\* 1..45 once; and no two questions with one fingerprint.
C12_AssemblyComplete ==
    \A e \in 1..Len(exam_questions) :
       LET rows == exam_questions[e] IN
       /\ Cardinality(rows) = 45
       /\ Cardinality({r.question_id : r \in rows}) = 45
       /\ QuotaBelow(12) = 45
       /\ \A u \in Topics :
             Cardinality({r \in rows : r.ut_number = u})
               = ut_configuration[u].questions_per_exam
       /\ \A r \in rows :
             \E q \in pool : q.question_id = r.question_id
                             /\ q.ut_number = r.ut_number
       /\ {r.question_order : r \in rows} = 1..45
       /\ Cardinality({FingerprintOfId(r.question_id) : r \in rows}) = 45

\* An exam was assembled from a pool in which a fingerprint repeats.
C12_Witness == exam_questions # <<>> /\ PoolRepeats

\* Some topic has fewer questions of different fingerprints than its quota.
InsufficientPool ==
    \E u \in Topics :
       Cardinality({q.fingerprint : q \in byTopic(u)})
         < ut_configuration[u].questions_per_exam

C14_CachedNoGeneratorCall ==
    [][\A h \in ExplHashes :
          checkExplanationExists(h)
          => CopiesIn(ExplCall(h, "sent", FALSE, 0), explCalls')
               <= CopiesIn(ExplCall(h, "sent", FALSE, 0), explCalls)
      ]_vars

\* The generateExplanation calls of fingerprint h at stage st.
ExplCallsAt(h, st, cs) == CopiesIn(ExplCall(h, st, FALSE, 0), cs)

\* C15: a regenerate of a fingerprint discards its cached explanation, and
\* the generation it causes is not started while a generator call for the
\* same fingerprint is under way.
C15_RegenerateExclusive ==
    [][\A h \in ExplHashes :
          /\ ExplCallsAt(h, "timeout", explCalls') > ExplCallsAt(h, "timeout", explCalls)
             => ~checkExplanationExists(h)'
          /\ (/\ ExplCallsAt(h, "timeout", explCalls')
                   < ExplCallsAt(h, "timeout", explCalls)
              /\ ExplCallsAt(h, "sent", explCalls') > ExplCallsAt(h, "sent", explCalls))
             => GeneratorCallsUnderWay(h) = {}
      ]_vars

\* The generateExplanation calls whose generator call has failed.
FailedCalls == {c \in BagToSet(explCalls) : c.stage = "answered" /\ ~c.ok}

\* C16: when a generateExplanation call ends on a failure of the generator,
\* the stored explanations stay as they were (none is stored for the failure),
\* the call is no longer under way, and the button of the fingerprint offers
\* to generate again.
C16_FailureReleases ==
    [][\A c \in FailedCalls :
          CopiesIn(c, explCalls') < CopiesIn(c, explCalls)
          => /\ explicaciones' = explicaciones
             /\ BagCardinality(explCalls') = BagCardinality(explCalls) - 1
             /\ explButton'[c.hash] = "generate"
      ]_vars

\* After a failed generation of h1, with nothing stored, a new generator
\* call for h1 is under way.
C16_Witness ==
    /\ generatorCalls["h1"] = 1
    /\ explicaciones = <<>>
    /\ explButton["h1"] = "loading"
    /\ ExplCallsAt("h1", "sent", explCalls) = 1
    /\ BagCardinality(explCalls) = 1

\* The generateExplanation calls whose generator call has succeeded.
SucceededCalls == {c \in BagToSet(explCalls) : c.stage = "answered" /\ c.ok}

C18_InvalidAnswerRejected ==
    \A q \in QuestionIds : userAnswers[q] \in Letters \cup {NoAnswer}

FailureReasonsOf(results) ==
    IF "failureReasons" \in DOMAIN results THEN results.failureReasons ELSE {}

\* The rules a result fails: 0 for the overall percentage below 65, and each
\* critical topic with more errors than its ceiling.
FailedRules(results) ==
    (IF PctLess(results.percentage, 65) THEN {0} ELSE {})
    \cup {u \in DOMAIN criticalUTs : results.utResults[u].errors > criticalUTs[u]}

\* C20: a failing result records as its failure reasons rules that it
\* fails, at least one; a passing result records none.
C20_FailureReasons ==
    displayed # Null
    => IF displayed[1].passed
       THEN FailureReasonsOf(displayed[1]) = {}
       ELSE /\ FailureReasonsOf(displayed[1]) # {}
            /\ FailureReasonsOf(displayed[1]) \subseteq FailedRules(displayed[1])

\* C21: the fingerprint of every question, with or without prompt and
\* options, is a token of sixteen hex digits; the call never fails.
C21_FingerprintNeverFails ==
    /\ calculateQuestionHash(pregunta).type = "string"
    /\ Len(calculateQuestionHash(pregunta).value) = 16

\* C22: an exam is started whole or not at all: the exam screen with the
\* countdown running is never seen without the question list of the exam.
C22_StartAllOrNothing == InProgress => QuestionsLoaded

RECURSIVE QuotaSum(_)
\* The sum of the quotas of the first n rows of ut_configuration.
QuotaSum(n) ==
    IF n = 0 THEN 0 ELSE QuotaSum(n - 1) + ut_configuration[n].questions_per_exam

\* The configuration: 11 rows, of the topics 1..11; the quotas sum to 45; a
\* row is critical exactly when it has a ceiling; a ceiling is at most the
\* quota of its topic; the ceilings of checkIfPassed are those of the
\* critical rows.
ConfigurationSound ==
    /\ Len(ut_configuration) = 11
    /\ \A n \in 1..11 : ut_configuration[n].ut_number = n
    /\ QuotaSum(11) = 45
    /\ \A n \in 1..11 :
          LET row == ut_configuration[n] IN
          /\ row.is_critical <=> row.max_errors_allowed # Null
          /\ row.is_critical
             => /\ row.max_errors_allowed[1] <= row.questions_per_exam
                /\ n \in DOMAIN criticalUTs
                /\ criticalUTs[n] = row.max_errors_allowed[1]
          /\ n \in DOMAIN criticalUTs => row.is_critical

C24_OneCountdown ==
    /\ Cardinality(intervals) <= 1
    /\ examTimer = NoTimer => intervals = {}

\* C25: timeRemaining stays within 0..ExamSeconds (the exam's duration):
\* the countdown never goes below zero.
C25_TimeWithinRange == timeRemaining >= 0 /\ timeRemaining <= ExamSeconds

\* The question of the bank at occurrence o.
QuestionAt(examenes, o) == examenes[o[1]].preguntas[o[2]]

\* C26: when a step changes the prompt or the options of an occurrence that
\* has a hash_pregunta, the hash stored afterwards is the fingerprint of the
\* new content.
C26_HashRecomputed ==
    [][\A o \in Occurrences(data) :
          LET before == QuestionAt(data, o)
              after == QuestionAt(data', o)
          IN  (/\ after.enunciado # before.enunciado \/ after.opciones # before.opciones
               /\ after.hash_pregunta # Null)
              => after.hash_pregunta = DrawnHash(after.enunciado, after.opciones)]_vars

\* C27: every step on the bank is explained by one edited hash and one form:
\* with a valid form every occurrence of that hash gets the prompt, options,
\* correct answer and annulled flag of the form; every other occurrence, and
\* every occurrence when the form is not valid, keeps all its fields and the
\* titulacion of its exam.
C27_EditFrame ==
    [][\E edited \in Occurrences(data), form \in EditForms :
          \A o \in Occurrences(data) :
             LET before == QuestionAt(data, o)
                 after == QuestionAt(data', o)
             IN  IF /\ validaciones(form)
                    /\ before.hash_pregunta = QuestionAt(data, edited).hash_pregunta
                 THEN /\ after.enunciado = trim(form.editEnunciado)
                      /\ after.opciones = nuevasOpciones(form)
                      /\ after.respuesta_correcta =
                            (IF form.editAnulada THEN Null
                             ELSE <<form.editRespuestaCorrecta>>)
                      /\ after.anulada = form.editAnulada
                 ELSE /\ after = before
                      /\ data'[o[1]].titulacion = data[o[1]].titulacion]_vars

\* C28: a regenerate whose delete confirmation is declined (a step on a
\* cached fingerprint that keeps the explanations as they are) sets no
\* generateExplanation of that fingerprint to run, so that the generator is
\* not called.
C28_DeclinedRegenerate ==
    [][\A h \in ExplHashes :
          (checkExplanationExists(h) /\ explicaciones' = explicaciones)
          => ExplCallsAt(h, "timeout", explCalls')
               <= ExplCallsAt(h, "timeout", explCalls)
      ]_vars

\* The questions deduplicateQuestions is applied to in applyFilters.
Passing == SelectSeq(allQuestions(data), LAMBDA q : passesFilters(q, filters))

\* The positions of the first occurrences of the hashes of a list.
FirstOccurrences(questions) ==
    SelectSeq([i \in 1..Len(questions) |-> i],
              LAMBDA i : \A j \in 1..(i - 1) :
                  questions[j].hash_pregunta # questions[i].hash_pregunta)

\* C29: with duplicates hidden the list is the first occurrence of every
\* hash_pregunta of the questions that pass the filters, in their order, each
\* with all the occurrences of its hash in todas_apariciones; every question
\* that passes the filters has its hash in the list.
C29_Deduplicated ==
    (data # Null /\ ~ filters.duplicados)
    => LET firsts == FirstOccurrences(Passing)
       IN  /\ Len(filteredQuestions) = Len(firsts)
           /\ \A k \in 1..Len(firsts) :
                 LET q == Passing[firsts[k]]
                     kept == filteredQuestions[k]
                     same == SelectSeq(Passing,
                                 LAMBDA o : o.hash_pregunta = q.hash_pregunta)
                 IN  /\ \A fld \in DOMAIN q : kept[fld] = q[fld]
                     /\ kept.todas_apariciones =
                           [n \in 1..Len(same) |-> aparicion(same[n])]
           /\ \A i \in 1..Len(Passing) :
                 \E k \in 1..Len(filteredQuestions) :
                    filteredQuestions[k].hash_pregunta = Passing[i].hash_pregunta

\* The number of pages of the filtered list, at least one.
TotalPages(questions) == max(1, ceilDiv(Len(questions), questionsPerPage))

\* C30: after every step currentPage is one of the pages of the filtered
\* list, the questions rendered are the slice of at most questionsPerPage
\* filtered questions of that page, and a step that changes the filtered
\* list leaves currentPage at 1.
C30_PageWithinRange ==
    [][/\ currentPage' \in 1..TotalPages(filteredQuestions')
       /\ Len(questionsToShow') <= questionsPerPage
       /\ questionsToShow' =
             SubSeq(filteredQuestions', (currentPage' - 1) * questionsPerPage + 1,
                    min(currentPage' * questionsPerPage, Len(filteredQuestions')))
       /\ filteredQuestions' # filteredQuestions => currentPage' = 1
      ]_vars

\* The last page of a searched list of several pages, not a full one.
C30_Witness ==
    /\ filters.search # ""
    /\ currentPage > 1
    /\ currentPage = TotalPages(filteredQuestions)
    /\ Len(questionsToShow) \in 1..(questionsPerPage - 1)

=============================================================================
